---- MODULE Spec2Model ----
(***************************************************************************)
(* Model of the YouTube Shorts workflow controller                         *)
(* (src/app/agent.py, YouTubeShortsCreatorAgent) and of the collaborators  *)
(* it drives.  One human turn is one run of _run_async_impl over the       *)
(* session state mapping ctx.session.state.                                *)
(*                                                                         *)
(* Texts are sequences of one-character strings.  A string value held in   *)
(* session state is a sequence of tokens: whitespace, newline, the fence   *)
(* markers that open and close a fenced block, a stretch of prose, or the  *)
(* text of one JSON document.  The outputs of the language-model steps     *)
(* are nondeterministic choices over bounded sets.                         *)
(***************************************************************************)
EXTENDS Integers, Sequences, FiniteSets, TLC

(***************************************************************************)
(* Call by value.  Python evaluates an argument once, before the call; an  *)
(* operator argument is an expression that is evaluated again at every     *)
(* use.  The({ body : x_ \in {x} }) evaluates x once and names its value   *)
(* x_ in the body.                                                         *)
(***************************************************************************)
The(S) == CHOOSE x \in S : TRUE

(***************************************************************************)
(* Bounds                                                                  *)
(***************************************************************************)
\* largest number of prompt lines the prompt generator produces
MaxScenes == 2

(***************************************************************************)
(* class WorkflowStage(Enum)                                               *)
(***************************************************************************)
THEME_DEFINITION == 1
RESEARCH == 2
SCRIPT_CREATION == 3
ASSET_GENERATION == 4

WorkflowStage == {THEME_DEFINITION, RESEARCH, SCRIPT_CREATION, ASSET_GENERATION}

(***************************************************************************)
(* Texts: str.lower(), str.strip(), str.replace(" ", "_")                  *)
(***************************************************************************)
LowerChar(c) ==
    CASE c = "A" -> "a"
      [] c = "E" -> "e"
      [] c = "K" -> "k"
      [] c = "O" -> "o"
      [] c = "S" -> "s"
      [] c = "Y" -> "y"
      [] OTHER -> c

Lower(t) ==
    The({ (
        [i \in 1..Len(t_) |-> LowerChar(t_[i])]
        ) : t_ \in {t} })

IsSpace(c) == c \in {" ", "\n"}

RECURSIVE LStrip(_)
LStrip(t) ==
    The({ (
        IF t_ # <<>> /\ IsSpace(Head(t_)) THEN LStrip(Tail(t_)) ELSE t_
        ) : t_ \in {t} })

RECURSIVE RStrip(_)
RStrip(t) ==
    The({ (
        IF t_ # <<>> /\ IsSpace(t_[Len(t_)]) THEN RStrip(SubSeq(t_, 1, Len(t_) - 1)) ELSE t_
        ) : t_ \in {t} })

Strip(t) ==
    The({ (
        RStrip(LStrip(t_))
        ) : t_ \in {t} })

ReplaceSpace(t) ==
    The({ (
        [i \in 1..Len(t_) |-> IF t_[i] = " " THEN "_" ELSE t_[i]]
        ) : t_ \in {t} })

(***************************************************************************)
(* Values held in session state                                            *)
(***************************************************************************)
\* a dict is a function from its keys to texts; {} is the empty function
EmptyDict == <<>>

\* the result of json.loads / the value a caller gets from the parser
JNull == [jk |-> "null", d |-> EmptyDict]
JScalar == [jk |-> "scalar", d |-> EmptyDict]
JObj(d) == [jk |-> "obj", d |-> d]

\* tokens of a string value
Ws == [t |-> "ws", j |-> JNull]
Nl == [t |-> "nl", j |-> JNull]
FenceOpen == [t |-> "fence_json", j |-> JNull]
FenceClose == [t |-> "fence", j |-> JNull]
Prose == [t |-> "prose", j |-> JNull]
Doc(j) == [t |-> "doc", j |-> j]

\* state.get(key) is None / a str / a dict / a list.  A str is held as
\* tokens (Str), as characters (Text) or as path components (PathV)
NoneV == [kind |-> "none", s |-> <<>>, d |-> EmptyDict]
Str(s) == [kind |-> "str", s |-> s, d |-> EmptyDict]
Text(s) == [kind |-> "text", s |-> s, d |-> EmptyDict]
PathV(s) == [kind |-> "path", s |-> s, d |-> EmptyDict]
Dict(d) == [kind |-> "dict", s |-> <<>>, d |-> d]
List(s) == [kind |-> "list", s |-> s, d |-> EmptyDict]

IsStr(v) == v.kind \in {"str", "text", "path"}

\* Python truthiness of a state value: None, "" and {} are falsy
Truthy(v) ==
    The({ (
        CASE v_.kind = "none" -> FALSE
          [] v_.kind \in {"str", "text", "path", "list"} -> v_.s # <<>>
          [] v_.kind = "dict" -> DOMAIN v_.d # {}
        ) : v_ \in {v} })

\* Python truthiness of a parsed value
JTruthy(j) ==
    The({ (
        CASE j_.jk = "null" -> FALSE
          [] j_.jk = "scalar" -> TRUE
          [] j_.jk = "obj" -> DOMAIN j_.d # {}
        ) : j_ \in {j} })

\* dict.get(key, default)
Get(d, key, default) ==
    The({ (
        IF key \in DOMAIN d_ THEN d_[key] ELSE default
        ) : d_ \in {d} })

(***************************************************************************)
(* _parse_json_response                                                    *)
(***************************************************************************)
IsBlank(tok) == tok.t \in {"ws", "nl"}

RECURSIVE LStripToks(_)
LStripToks(s) ==
    The({ (
        IF s_ # <<>> /\ IsBlank(Head(s_)) THEN LStripToks(Tail(s_)) ELSE s_
        ) : s_ \in {s} })

RECURSIVE RStripToks(_)
RStripToks(s) ==
    The({ (
        IF s_ # <<>> /\ IsBlank(s_[Len(s_)])
        THEN RStripToks(SubSeq(s_, 1, Len(s_) - 1))
        ELSE s_
        ) : s_ \in {s} })

StripToks(s) ==
    The({ (
        RStripToks(LStripToks(s_))
        ) : s_ \in {s} })

\* if json_str.startswith(fence + "json"): json_str = json_str[7:]
DropFenceOpen(s) ==
    The({ (
        IF s_ # <<>> /\ Head(s_) = FenceOpen THEN Tail(s_) ELSE s_
        ) : s_ \in {s} })

\* if json_str.endswith(fence): json_str = json_str[:-3]
DropFenceClose(s) ==
    The({ (
        IF s_ # <<>> /\ s_[Len(s_)] = FenceClose THEN SubSeq(s_, 1, Len(s_) - 1) ELSE s_
        ) : s_ \in {s} })

\* json.loads: one document, surrounding whitespace allowed; anything else
\* raises JSONDecodeError, which the parser turns into None
JsonLoads(s) ==
    The({ (
        LET body == StripToks(s_)
        IN  IF Len(body) = 1 /\ body[1].t = "doc" THEN body[1].j ELSE JNull
        ) : s_ \in {s} })

\* variant: the fence markers are not removed before decoding
_parse_json_response_nofence(raw_data) ==
    The({ (
        CASE raw_data_.kind = "str" -> JsonLoads(StripToks(raw_data_.s))
          [] raw_data_.kind = "dict" -> JObj(raw_data_.d)
          [] OTHER -> JNull
        ) : raw_data_ \in {raw_data} })

_parse_json_response(raw_data) ==
    The({ (
        CASE raw_data_.kind = "str" ->
                JsonLoads(StripToks(DropFenceClose(DropFenceOpen(StripToks(raw_data_.s)))))
          [] raw_data_.kind = "dict" -> JObj(raw_data_.d)
          [] OTHER -> JNull
        ) : raw_data_ \in {raw_data} })

(***************************************************************************)
(* _is_user_approval                                                       *)
(***************************************************************************)
ApprovalWords ==
    { <<"y", "e", "s">>,
      <<"a", "p", "p", "r", "o", "v", "e">>,
      <<"g", "o", "o", "d">>,
      <<"p", "e", "r", "f", "e", "c", "t">>,
      <<"o", "k">>,
      <<"o", "k", "a", "y">> }

\* variant: a reply that begins with an approval word counts as approval
_is_user_approval_prefix(user_input) ==
    The({ (
        LET text == Strip(Lower(user_input_))
        IN  \E w \in ApprovalWords :
               Len(text) >= Len(w) /\ SubSeq(text, 1, Len(w)) = w
        ) : user_input_ \in {user_input} })

_is_user_approval(user_input) ==
    The({ (
        IF user_input_ = <<>> THEN FALSE ELSE Strip(Lower(user_input_)) \in ApprovalWords
        ) : user_input_ \in {user_input} })

(***************************************************************************)
(* Bounded inputs: labels, texts, human replies, outputs of the steps      *)
(***************************************************************************)
T_yes == <<"y", "e", "s">>
T_YES_padded == <<" ", "Y", "E", "S", "\n">>
T_okay == <<"o", "k", "a", "y">>
T_shorter == <<"s", "h", "o", "r", "t", "e", "r">>
T_approved == <<"a", "p", "p", "r", "o", "v", "e", "d">>
T_intent == <<"i">>
T_true == <<"t", "r", "u", "e">>

\* what the human may type in a turn
Replies == {T_yes, T_shorter}

\* theme labels the theme definer may produce
L_plain == <<"A", " ", "b">>
L_other == <<"c">>

ThemeDoc(label) == Doc(JObj([theme |-> label, user_intent |-> T_intent]))

\* final texts of the theme definer (no output_schema: a str): a JSON
\* document, a fenced JSON document, prose, or nothing
ThemeOutputs ==
    { Str(<<ThemeDoc(L_plain)>>),
      Str(<<FenceOpen, Nl, ThemeDoc(L_other), Nl, FenceClose>>),
      Str(<<Prose>>),
      Str(<<>>) }

\* final output of the user feedback step on the human message r, as its
\* instruction and output_schema (the single field "feedback") prescribe:
\* the word "approved", or the digested feedback
FeedbackOutputs(r) ==
    { Dict([feedback |-> IF Strip(Lower(r)) = T_yes THEN T_approved ELSE r]) }

\* a feedback entry the session may already hold when it is created
SeedFeedback ==
    { Dict([user_input |-> r]) :
          r \in {T_yes, T_YES_padded, T_approved, T_shorter, <<>>} }
    \cup { Dict([user_input |-> T_shorter, approved |-> T_true]),
           Str(<<FenceOpen, Nl, Doc(JObj([user_input |-> T_okay])), Nl, FenceClose>>),
           Str(<<Doc(JScalar)>>),
           Str(<<Prose>>) }

ResearchOutputs == { Str(<<Prose>>), Str(<<>>) }

ScriptOutputs == { Str(<<Prose>>), Str(<<Prose, Nl, Prose>>), Str(<<>>) }

\* prompt texts: one prompt per line
RECURSIVE PromptLines(_)
PromptLines(n) == IF n = 0 THEN <<>> ELSE <<Prose, Nl>> \o PromptLines(n - 1)

PromptOutputs == { Str(PromptLines(n)) : n \in 1..MaxScenes } \cup { Str(<<Ws, Nl>>), Str(<<>>) }

\* outcome of running one language-model step: it raises, it ends
\* without a final text (the output key keeps its value), or it writes v
Raise == [kind |-> "raise", v |-> NoneV]
Silent == [kind |-> "silent", v |-> NoneV]
Value(v) == [kind |-> "value", v |-> v]

Outcomes(values) == {Raise, Silent} \cup { Value(v) : v \in values }

\* outcome of one image request: images returned, none returned, exception
SceneOutcomes == {"ok", "empty", "raise"}

(***************************************************************************)
(* Sub-agents: name, output_key, after_agent_callback=save_agent_output    *)
(***************************************************************************)
theme_definer ==
    [name |-> "ThemeDefinerAgent", output_key |-> "theme_intent", archives |-> TRUE]
user_feedback ==
    [name |-> "UserFeedbackAgent", output_key |-> "feedback", archives |-> FALSE]
researcher ==
    [name |-> "ResearcherAgent", output_key |-> "research_report", archives |-> FALSE]
script_writer ==
    [name |-> "ScriptWriterAgent", output_key |-> "script", archives |-> TRUE]
prompt_generator ==
    [name |-> "PromptGeneratorAgent", output_key |-> "image_prompts", archives |-> TRUE]
image_generator ==
    [name |-> "ImageGeneratorAgent", input_key |-> "image_prompts",
     output_key |-> "images_path"]

SelfName == "YouTubeShortsCreatorAgent"

(***************************************************************************)
(* Session state and the filesystem                                        *)
(***************************************************************************)
\* ctx.session.state of a new session: every key absent.  workflow_stage 0
\* is the absent key (read with the default THEME_DEFINITION); an absent
\* flag is read with the default False
EmptyState ==
    [ workflow_stage |-> 0,
      theme_intent |-> NoneV,
      user_responded_to_theme |-> FALSE,
      user_responded_to_script |-> FALSE,
      feedback |-> NoneV,
      user_feedback |-> NoneV,
      research_report |-> NoneV,
      script |-> NoneV,
      image_prompts |-> NoneV,
      assets_path |-> NoneV,
      intent |-> NoneV,
      images_path |-> NoneV ]

\* state.get("workflow_stage", WorkflowStage.THEME_DEFINITION)
StageOf(st) == IF st.workflow_stage = 0 THEN THEME_DEFINITION ELSE st.workflow_stage

\* a path is the sequence of its components
Prefixes(path) == { SubSeq(path, 1, n) : n \in 1..Len(path) }

\* Path / component ("" adds nothing)
PathJoin(path, component) == IF component = <<>> THEN path ELSE Append(path, component)

DefaultArchive == << <<"projects">>, <<"default">> >>

(***************************************************************************)
(* The running turn: session state, filesystem, emitted events, steps run  *)
(***************************************************************************)
\* c.state   ctx.session.state
\* c.dirs    directories that exist
\* c.files   files that exist, each as <<directory, <<name, extension>>>>
\* c.events  events yielded so far in this turn
\* c.calls   steps whose run_async was entered in this turn, in order
\* c.writes  values assigned to workflow_stage in this turn, in order
\* c.decided the values parsed for an approve/reject decision in this turn
\* c.interpreted the outputs the user feedback step produced in this turn
\* c.crashed an exception left the handler
\* c.heard   state["user_feedback"] at the moment each step of c.calls was entered
\* c.setups  number of times _setup_assets_folder was entered in this turn
\* c.written files written in this turn, each as <<directory, <<name, extension>>>>
NewCtx(st, ds, fl) ==
    [ state |-> st, dirs |-> ds, files |-> fl, events |-> <<>>, calls |-> <<>>,
      writes |-> <<>>, decided |-> <<>>, interpreted |-> <<>>, crashed |-> FALSE,
      heard |-> <<>>, setups |-> 0, written |-> {} ]

\* text2event(author, text)
text2event(author, kind, about) == [author |-> author, kind |-> kind, about |-> about]

Emit(c, kind, about) ==
    The({ (
        IF c_.crashed THEN c_
        ELSE [c_ EXCEPT !.events = Append(@, text2event(SelfName, kind, about))]
        ) : c_ \in {c} })

Crash(c) ==
    The({ (
        [c_ EXCEPT !.crashed = TRUE]
        ) : c_ \in {c} })

SetKey(c, key, v) ==
    The({ (
        IF c_.crashed THEN c_ ELSE [c_ EXCEPT !.state[key] = v]
        ) : c_ \in {c} })

SetStage(c, stage) ==
    The({ (
        IF c_.crashed THEN c_
        ELSE [c_ EXCEPT !.state.workflow_stage = stage, !.writes = Append(@, stage)]
        ) : c_ \in {c} })

\* variant: mkdir without exist_ok raises when the directory exists
Mkdir_exclusive(c, path, disk_ok) ==
    The({ (
        IF c_.crashed THEN c_
        ELSE IF path \in c_.dirs THEN Crash(c_)
        ELSE IF ~disk_ok THEN Crash(c_)
        ELSE [c_ EXCEPT !.dirs = @ \cup Prefixes(path)]
        ) : c_ \in {c} })

\* Path.mkdir(parents=True, exist_ok=True); raises when the directory has
\* to be created and the disk refuses
Mkdir(c, path, disk_ok) ==
    The({ (
        IF c_.crashed THEN c_
        ELSE IF path \in c_.dirs THEN c_
        ELSE IF ~disk_ok THEN Crash(c_)
        ELSE [c_ EXCEPT !.dirs = @ \cup Prefixes(path)]
        ) : c_ \in {c} })

\* open(path, "w") / write_text / image.save: the file exists afterwards
WriteFile(files, dir, name) == files \cup {<<dir, name>>}

(***************************************************************************)
(* save_agent_output (after_agent_callback)                                *)
(***************************************************************************)
StateKeys == DOMAIN EmptyState

\* keys whose value is a str or a dict; every other entry is skipped
ArchivedKeys(st) ==
    { k \in StateKeys \ {"workflow_stage", "user_responded_to_theme",
                         "user_responded_to_script"} :
        IsStr(st[k]) \/ st[k].kind = "dict" }

\* variant: every archived entry is written as text
ArchiveName_md(st, k) == <<k, "md">>

ArchiveName(st, k) == <<k, IF st[k].kind = "dict" THEN "json" ELSE "md">>

ArchiveAll(files, dir, st, keys) ==
    files \cup { <<dir, ArchiveName(st, k)>> : k \in keys }

save_agent_output(c, disk_ok) ==
    The({ (
        LET output_dir == IF c_.state.assets_path.kind = "none"
                          THEN DefaultArchive
                          ELSE c_.state.assets_path.s
            c1 == Mkdir(c_, output_dir, disk_ok)
        IN  IF c1.crashed THEN c1
            ELSE [c1 EXCEPT
                     !.files = ArchiveAll(@, output_dir, c1.state, ArchivedKeys(c1.state)),
                     !.written = ArchiveAll(@, output_dir, c1.state,
                                            ArchivedKeys(c1.state))]
        ) : c_ \in {c} })

(***************************************************************************)
(* agent.run_async(ctx) of a language-model step                           *)
(***************************************************************************)
RunAgent(agent, c, o, disk_ok) ==
    The({ (
        IF c_.crashed THEN c_
        ELSE LET c1 == [c_ EXCEPT !.calls = Append(@, agent.name),
                                 !.heard = Append(@, c_.state.user_feedback)]
             IN  CASE o.kind = "raise" -> Crash(c1)
                   [] o.kind = "silent" ->
                        IF agent.archives THEN save_agent_output(c1, disk_ok) ELSE c1
                   [] o.kind = "value" ->
                        LET c2 == [c1 EXCEPT
                                      !.state[agent.output_key] = o.v,
                                      !.events = Append(@,
                                          text2event(agent.name, "response", o.v))]
                        IN  IF agent.archives THEN save_agent_output(c2, disk_ok) ELSE c2
        ) : c_ \in {c} })

(***************************************************************************)
(* _run_sub_agent                                                          *)
(***************************************************************************)
\* variant: a missing output is not reported
_run_sub_agent_quiet(agent, c, o, disk_ok) ==
    The({ (
        RunAgent(agent, c_, o, disk_ok)
        ) : c_ \in {c} })

_run_sub_agent(agent, c, o, disk_ok) ==
    The({ (
        LET c1 == RunAgent(agent, c_, o, disk_ok)
        IN  IF c1.crashed THEN c1
            ELSE IF ~Truthy(c1.state[agent.output_key])
                 THEN Emit(c1, "no_output", agent.name)
                 ELSE c1
        ) : c_ \in {c} })

(***************************************************************************)
(* _define_theme_and_ask_for_feedback                                      *)
(***************************************************************************)
_define_theme_and_ask_for_feedback(c, o) ==
    The({ (
        LET c1 == Emit(c_, "analyzing", "")
            c2 == _run_sub_agent(theme_definer, c1, o.theme, o.disk_ok)
            theme_intent_raw == c2.state.theme_intent
            theme_intent == _parse_json_response(theme_intent_raw)
        IN  IF c2.crashed THEN c2
            ELSE IF ~Truthy(theme_intent_raw) THEN c2
            ELSE IF ~JTruthy(theme_intent) THEN Emit(c2, "sorry", "")
            ELSE IF theme_intent.jk # "obj" THEN Crash(c2)
            ELSE Emit(c2, "propose_theme",
                      << Get(theme_intent.d, "theme", <<"Unknown Theme">>),
                         Get(theme_intent.d, "user_intent", <<"No intent specified">>) >>)
        ) : c_ \in {c} })

(***************************************************************************)
(* _draft_script_and_ask_for_feedback                                      *)
(***************************************************************************)
_draft_script_and_ask_for_feedback(c, o) ==
    The({ (
        LET c1 == Emit(c_, "creating_script", "")
            c2 == _run_sub_agent(script_writer, c1, o.script, o.disk_ok)
        IN  IF c2.crashed THEN c2
            ELSE IF Truthy(c2.state.script)
                 THEN Emit(c2, "propose_script", c2.state.script)
                 ELSE c2
        ) : c_ \in {c} })

(***************************************************************************)
(* _setup_assets_folder                                                    *)
(***************************************************************************)
\* theme.replace(" ", "_").lower()
Slug(theme) ==
    The({ (
        Lower(ReplaceSpace(theme_))
        ) : theme_ \in {theme} })

_setup_assets_folder(c, o) ==
    The({ (
        LET c0 == [c_ EXCEPT !.setups = @ + 1]
            theme_intent_raw == c_.state.theme_intent
            theme_intent == _parse_json_response(theme_intent_raw)
            theme == IF JTruthy(theme_intent)
                     THEN Get(theme_intent.d, "theme", <<"default">>)
                     ELSE <<"default">>
            intent == IF JTruthy(theme_intent)
                      THEN Get(theme_intent.d, "user_intent", <<>>)
                      ELSE <<>>
            assets_path == PathJoin(<< <<"projects">> >>, Slug(theme))
            c1 == Mkdir(c0, assets_path, o.disk_ok)
            c2 == SetKey(SetKey(c1, "assets_path", PathV(assets_path)), "intent", Text(intent))
        IN  IF c_.crashed THEN c_
            ELSE IF ~Truthy(theme_intent_raw) THEN Emit(c0, "no_theme_error", "")
            ELSE IF JTruthy(theme_intent) /\ theme_intent.jk # "obj" THEN Crash(c0)
            ELSE Emit(c2, "folder_created", assets_path)
        ) : c_ \in {c} })

(***************************************************************************)
(* ImagenAgent (src/app/agents/image_generator.py)                         *)
(***************************************************************************)
\* prompts_raw.split("\n"), each line stripped, blank lines dropped
RECURSIVE SplitLines(_, _)
SplitLines(s, line) ==
    The({ (
        IF s_ = <<>> THEN <<line>>
        ELSE IF Head(s_) = Nl THEN <<line>> \o SplitLines(Tail(s_), <<>>)
        ELSE SplitLines(Tail(s_), Append(line, Head(s_)))
        ) : s_ \in {s} })

PromptsOf(prompts_raw) ==
    The({ (
        IF prompts_raw_.kind = "str"
        THEN SelectSeq([i \in 1..Len(SplitLines(prompts_raw_.s, <<>>)) |->
                           StripToks(SplitLines(prompts_raw_.s, <<>>)[i])],
                       LAMBDA line : line # <<>>)
        ELSE <<>>
        ) : prompts_raw_ \in {prompts_raw} })

SceneDir(assets_path, scene_idx) ==
    assets_path \o << <<"scene_", ToString(scene_idx + 1)>>, <<"images">> >>

ImageEmit(c, kind, about) ==
    The({ (
        [c_ EXCEPT !.events = Append(@, text2event(image_generator.name, kind, about))]
        ) : c_ \in {c} })

\* _generate_image: every exception is caught and reported
_generate_image(c, scene_idx, output_dir, outcome) ==
    The({ (
        LET c1 == ImageEmit(c_, "generating_scene", scene_idx + 1)
        IN  CASE outcome = "ok" ->
                   ImageEmit([c1 EXCEPT
                                 !.files = WriteFile(@, output_dir, <<"image_1", "jpg">>),
                                 !.written = WriteFile(@, output_dir, <<"image_1", "jpg">>)],
                             "image_saved", scene_idx + 1)
              [] outcome = "empty" -> ImageEmit(c1, "scene_failed", scene_idx + 1)
              [] outcome = "raise" -> ImageEmit(c1, "scene_error", scene_idx + 1)
        ) : c_ \in {c} })

\* the loop over enumerate(prompts), inside the outer try
RECURSIVE ImageLoop(_, _, _, _, _)

\* variant: the run is abandoned after a scene whose image request failed
ImageLoop_abort(c, assets_path, prompts, scene_idx, o) ==
    The({ (
        IF scene_idx >= Len(prompts) THEN ImageEmit(c_, "all_images_generated", "")
        ELSE IF scene_idx > 0 /\ o.scenes[scene_idx] # "ok"
             THEN ImageEmit(c_, "image_run_error", "")
        ELSE LET output_dir == SceneDir(assets_path, scene_idx)
                 c1 == Mkdir(c_, output_dir, o.disk_ok)
                 c2 == [c1 EXCEPT !.state.images_path = List(Append(@.s, output_dir))]
             IN  IF c1.crashed THEN ImageEmit(c_, "image_run_error", "")
                 ELSE ImageLoop(_generate_image(c2, scene_idx, output_dir,
                                                o.scenes[scene_idx + 1]),
                                assets_path, prompts, scene_idx + 1, o)
        ) : c_ \in {c} })

\* variant: a scene directory is recorded only when its image was saved
ImageLoop_saved_only(c, assets_path, prompts, scene_idx, o) ==
    The({ (
        IF scene_idx >= Len(prompts) THEN ImageEmit(c_, "all_images_generated", "")
        ELSE LET output_dir == SceneDir(assets_path, scene_idx)
                 c1 == Mkdir(c_, output_dir, o.disk_ok)
                 c2 == IF o.scenes[scene_idx + 1] = "ok"
                       THEN [c1 EXCEPT !.state.images_path = List(Append(@.s, output_dir))]
                       ELSE c1
             IN  IF c1.crashed THEN ImageEmit(c_, "image_run_error", "")
                 ELSE ImageLoop(_generate_image(c2, scene_idx, output_dir,
                                                o.scenes[scene_idx + 1]),
                                assets_path, prompts, scene_idx + 1, o)
        ) : c_ \in {c} })

ImageLoop(c, assets_path, prompts, scene_idx, o) ==
    The({ (
        IF scene_idx >= Len(prompts) THEN ImageEmit(c_, "all_images_generated", "")
        ELSE LET output_dir == SceneDir(assets_path, scene_idx)
                 c1 == Mkdir(c_, output_dir, o.disk_ok)
                 c2 == [c1 EXCEPT !.state.images_path = List(Append(@.s, output_dir))]
             IN  IF c1.crashed THEN ImageEmit(c_, "image_run_error", "")
                 ELSE ImageLoop(_generate_image(c2, scene_idx, output_dir,
                                                o.scenes[scene_idx + 1]),
                                assets_path, prompts, scene_idx + 1, o)
        ) : c_ \in {c} })

ImagenAgent_run(c, o) ==
    The({ (
        LET c1 == [c_ EXCEPT !.calls = Append(@, image_generator.name),
                            !.heard = Append(@, c_.state.user_feedback)]
            prompts == PromptsOf(c1.state.image_prompts)
        IN  IF c_.crashed THEN c_
            ELSE IF c1.state.assets_path.kind = "none" THEN Crash(c1)
            ELSE IF prompts = <<>> THEN ImageEmit(c1, "no_prompts", "")
            ELSE ImageLoop([c1 EXCEPT !.state.images_path = List(<<>>)],
                           c1.state.assets_path.s, prompts, 0, o)
        ) : c_ \in {c} })

(***************************************************************************)
(* _run_async_impl: the branches of one turn of the controller             *)
(***************************************************************************)
\* lines 206-210 and 259-263: the stored feedback is read, then the user
\* feedback step runs; the value read before the run is the one parsed
InterpretFeedback(c, o) ==
    The({ (
        LET user_feedback_raw == c_.state.feedback
            c1 == _run_sub_agent(user_feedback, c_, o.feedback, o.disk_ok)
        IN  IF c1.crashed THEN c1
            ELSE [c1 EXCEPT
                     !.decided = Append(@, user_feedback_raw),
                     !.interpreted = Append(@, IF o.feedback.kind = "value"
                                               THEN o.feedback.v ELSE NoneV)]
        ) : c_ \in {c} })

\* lines 213-217 and 266-270: user_input of the value read before the run
\* is stored and the responded flag is set
RecordVerdict(c, o, flag) ==
    The({ (
        LET user_feedback_data == _parse_json_response(c_.state.feedback)
            user_input == Get(user_feedback_data.d, "user_input", <<>>)
        IN  SetKey(SetKey(InterpretFeedback(c_, o), "user_feedback", Text(user_input)),
                   flag, TRUE)
        ) : c_ \in {c} })

\* variant: the assets folder is not set up on approval
ThemeApproved_nofolder(c, o) ==
    The({ (
        LET c1 == Emit(SetStage(c_, RESEARCH), "theme_approved", "")
            c3 == _run_sub_agent(researcher, Emit(c1, "researching", ""), o.research, o.disk_ok)
            c4 == Emit(SetStage(c3, SCRIPT_CREATION), "research_complete", "")
        IN  _draft_script_and_ask_for_feedback(c4, o)
        ) : c_ \in {c} })

\* lines 221-236
ThemeApproved(c, o) ==
    The({ (
        LET c1 == Emit(SetStage(c_, RESEARCH), "theme_approved", "")
            c2 == _setup_assets_folder(c1, o)
            c3 == _run_sub_agent(researcher, Emit(c2, "researching", ""), o.research, o.disk_ok)
            c4 == Emit(SetStage(c3, SCRIPT_CREATION), "research_complete", "")
        IN  _draft_script_and_ask_for_feedback(c4, o)
        ) : c_ \in {c} })

\* variant: a rejected theme leaves the responded flag set
ThemeRejected_noreset(c, o) ==
    The({ (
        LET c1 == Emit(c_, "revise_theme", "")
            c2 == SetKey(SetKey(c1, "theme_intent", NoneV), "user_feedback", Text(<<>>))
        IN  _define_theme_and_ask_for_feedback(c2, o)
        ) : c_ \in {c} })

\* lines 238-246
ThemeRejected(c, o) ==
    The({ (
        LET c1 == Emit(c_, "revise_theme", "")
            c2 == SetKey(SetKey(SetKey(c1, "theme_intent", NoneV),
                                "user_responded_to_theme", FALSE),
                         "user_feedback", Text(<<>>))
        IN  _define_theme_and_ask_for_feedback(c2, o)
        ) : c_ \in {c} })

\* variant: the assets folder is set up again when the script is approved
ScriptApproved_reprovision(c, o) ==
    The({ (
        LET c1 == Emit(SetStage(c_, ASSET_GENERATION), "script_approved", "")
            c2 == _run_sub_agent(prompt_generator,
                                 Emit(_setup_assets_folder(c1, o), "creating_prompts", ""),
                                 o.prompts, o.disk_ok)
            c3 == ImagenAgent_run(Emit(c2, "generating_images", ""), o)
        IN  Emit(c3, "complete", c3.state.assets_path)
        ) : c_ \in {c} })

\* variant: the images are generated before the prompts are
ScriptApproved_images_first(c, o) ==
    The({ (
        LET c1 == Emit(SetStage(c_, ASSET_GENERATION), "script_approved", "")
            c2 == ImagenAgent_run(Emit(c1, "generating_images", ""), o)
            c3 == _run_sub_agent(prompt_generator, Emit(c2, "creating_prompts", ""),
                                 o.prompts, o.disk_ok)
        IN  Emit(c3, "complete", c3.state.assets_path)
        ) : c_ \in {c} })

\* lines 274-290
ScriptApproved(c, o) ==
    The({ (
        LET c1 == Emit(SetStage(c_, ASSET_GENERATION), "script_approved", "")
            c2 == _run_sub_agent(prompt_generator, Emit(c1, "creating_prompts", ""),
                                 o.prompts, o.disk_ok)
            c3 == ImagenAgent_run(Emit(c2, "generating_images", ""), o)
        IN  Emit(c3, "complete", c3.state.assets_path)
        ) : c_ \in {c} })

\* variant: a rejected script sends the workflow back to research
ScriptRejected_restart(c, o) ==
    The({ (
        LET c1 == Emit(SetStage(c_, RESEARCH), "revise_script", "")
            c2 == SetKey(SetKey(SetKey(c1, "script", NoneV),
                                "user_responded_to_script", FALSE),
                         "user_feedback", Text(<<>>))
        IN  _draft_script_and_ask_for_feedback(c2, o)
        ) : c_ \in {c} })

\* variant: the old script is not removed before the script step runs again
ScriptRejected_keep(c, o) ==
    The({ (
        LET c1 == Emit(c_, "revise_script", "")
            c2 == SetKey(SetKey(c1, "user_responded_to_script", FALSE),
                         "user_feedback", Text(<<>>))
        IN  _draft_script_and_ask_for_feedback(c2, o)
        ) : c_ \in {c} })

\* variant: a rejected script also discards the approved theme
ScriptRejected_retheme(c, o) ==
    The({ (
        LET c1 == Emit(c_, "revise_script", "")
            c2 == SetKey(SetKey(SetKey(SetKey(c1, "script", NoneV),
                                       "theme_intent", NoneV),
                                "user_responded_to_script", FALSE),
                         "user_feedback", Text(<<>>))
        IN  _draft_script_and_ask_for_feedback(c2, o)
        ) : c_ \in {c} })

\* lines 292-300
ScriptRejected(c, o) ==
    The({ (
        LET c1 == Emit(c_, "revise_script", "")
            c2 == SetKey(SetKey(SetKey(c1, "script", NoneV),
                                "user_responded_to_script", FALSE),
                         "user_feedback", Text(<<>>))
        IN  _draft_script_and_ask_for_feedback(c2, o)
        ) : c_ \in {c} })

\* lines 209-214, then line 308: the value read does not parse
\* to a non-empty value; a parsed value that is not a dict has no get()
Unparsed(c, o) ==
    The({ (
        LET c1 == InterpretFeedback(c_, o)
        IN  IF c1.crashed THEN c1
            ELSE IF JTruthy(_parse_json_response(c_.state.feedback)) THEN Crash(c1)
            ELSE Emit(c1, "went_wrong", "")
        ) : c_ \in {c} })

(***************************************************************************)
(* The conversation: a sequence of turns over one session                  *)
(***************************************************************************)
VARIABLES
    state,        \* ctx.session.state, as persisted between turns
    dirs,         \* directories on disk
    files,        \* files on disk
    start,        \* session state at the start of the latest turn
    reply,        \* the human message of the latest turn
    events,       \* events yielded in the latest turn
    calls,        \* steps run in the latest turn
    writes,       \* assignments to workflow_stage in the latest turn
    decided,      \* value parsed for the decision of the latest turn
    interpreted,  \* output of the user feedback step in the latest turn
    crashed,      \* the latest turn ended with an exception
    heard,        \* state["user_feedback"] as each step of the latest turn was entered
    provisions,   \* runs of _setup_assets_folder since the session was created
    sid,          \* the session the runner is serving (state is its session state)
    parked,       \* state and provisions of the other session the runner holds
    writers       \* <<session, file>> for every file a turn of the session wrote

vars == <<state, dirs, files, start, reply, events, calls, writes, decided,
          interpreted, crashed, heard, provisions, sid, parked, writers>>

NoReply == <<"<none>">>

\* A new session: no key the controller writes is present.  The hosting
\* runtime accepts an initial state mapping when a session is created, so
\* the feedback entry, which the controller reads before any step has
\* written it, is either absent or already holds a value.
NewSessions(seeds) == { [EmptyState EXCEPT !.feedback = f] : f \in seeds }

\* the runner holds the session it serves and one other session
InitWith(served, others) ==
    /\ state \in served
    /\ parked \in { [state |-> st, provisions |-> 0] : st \in others }
    /\ sid = 1
    /\ writers = {}
    /\ dirs = {}
    /\ files = {}
    /\ start = state
    /\ reply = NoReply
    /\ events = <<>>
    /\ calls = <<>>
    /\ writes = <<>>
    /\ decided = <<>>
    /\ interpreted = <<>>
    /\ crashed = FALSE
    /\ heard = <<>>
    /\ provisions = 0

\* one conversation: the other session is never served
Init == InitWith(NewSessions(SeedFeedback \cup {NoneV}), {EmptyState})

\* outcomes of the steps of one turn
NoOutcomes ==
    [ theme |-> Silent, feedback |-> Silent, research |-> Silent, script |-> Silent,
      prompts |-> Silent, scenes |-> [i \in 1..MaxScenes |-> "ok"], disk_ok |-> TRUE ]

\* the context a turn starts with
Ctx == NewCtx(state, dirs, files)

\* the turn on the human message r ends with context c
Turn(r, c) ==
    \E c_ \in {c} :
    /\ state' = c_.state
    /\ dirs' = c_.dirs
    /\ files' = c_.files
    /\ start' = state
    /\ reply' = r
    /\ events' = c_.events
    /\ calls' = c_.calls
    /\ writes' = c_.writes
    /\ decided' = c_.decided
    /\ interpreted' = c_.interpreted
    /\ crashed' = c_.crashed
    /\ heard' = c_.heard
    /\ provisions' = provisions + c_.setups
    /\ writers' = writers \cup { <<sid, f>> : f \in c_.written }
    /\ UNCHANGED <<sid, parked>>

\* lines 188-206 and 253-260: where the turn goes
AtTheme(st) == StageOf(st) = THEME_DEFINITION
AtScript(st) == StageOf(st) = SCRIPT_CREATION
ThemeAwaiting(st) ==
    AtTheme(st) /\ Truthy(st.theme_intent) /\ ~st.user_responded_to_theme
ScriptAwaiting(st) == AtScript(st) /\ ~st.user_responded_to_script

\* lines 213-220 and 266-273 on the stored feedback
StoredVerdict(st) == _parse_json_response(st.feedback)
Decides(st) ==
    Truthy(st.feedback) /\ JTruthy(StoredVerdict(st)) /\ StoredVerdict(st).jk = "obj"
StoredApproval(st) ==
    Decides(st) /\ _is_user_approval(Get(StoredVerdict(st).d, "user_input", <<>>))

\* line 197: first turn, or the theme step left no theme
DefineThemeTurn ==
    /\ AtTheme(state) /\ ~Truthy(state.theme_intent)
    /\ \E r \in Replies, th \in Outcomes(ThemeOutputs) :
          Turn(r, _define_theme_and_ask_for_feedback(
                      Ctx, [NoOutcomes EXCEPT !.theme = th]))

\* line 249: a theme is proposed and no feedback is stored
ThemeNoFeedbackTurn ==
    /\ ThemeAwaiting(state) /\ ~Truthy(state.feedback)
    /\ \E r \in Replies, th \in Outcomes(ThemeOutputs) :
          Turn(r, _define_theme_and_ask_for_feedback(
                      Ctx, [NoOutcomes EXCEPT !.theme = th]))

\* lines 207-236
ThemeApproveTurn ==
    /\ ThemeAwaiting(state) /\ StoredApproval(state)
    /\ \E r \in Replies : \E fb \in Outcomes(FeedbackOutputs(r)),
          rs \in Outcomes(ResearchOutputs), sc \in Outcomes(ScriptOutputs) :
          LET o == [NoOutcomes EXCEPT !.feedback = fb, !.research = rs, !.script = sc]
          IN  Turn(r, ThemeApproved(RecordVerdict(Ctx, o, "user_responded_to_theme"), o))

\* lines 207-226 when the disk refuses the new directory: assets_path.mkdir
\* (line 173) raises and nothing in the controller catches it
ThemeApproveDiskFaultTurn ==
    /\ ThemeAwaiting(state) /\ StoredApproval(state)
    /\ \E r \in Replies : \E fb \in Outcomes(FeedbackOutputs(r)) :
          LET o == [NoOutcomes EXCEPT !.feedback = fb, !.disk_ok = FALSE]
          IN  Turn(r, ThemeApproved(RecordVerdict(Ctx, o, "user_responded_to_theme"), o))

\* lines 207-220, 238-246
ThemeRejectTurn ==
    /\ ThemeAwaiting(state) /\ Decides(state) /\ ~StoredApproval(state)
    /\ \E r \in Replies : \E fb \in Outcomes(FeedbackOutputs(r)),
          th \in Outcomes(ThemeOutputs) :
          LET o == [NoOutcomes EXCEPT !.feedback = fb, !.theme = th]
          IN  Turn(r, ThemeRejected(RecordVerdict(Ctx, o, "user_responded_to_theme"), o))

\* lines 207-214 then 308
ThemeUnparsedTurn ==
    /\ ThemeAwaiting(state) /\ Truthy(state.feedback) /\ ~Decides(state)
    /\ \E r \in Replies : \E fb \in Outcomes(FeedbackOutputs(r)) :
          Turn(r, Unparsed(Ctx, [NoOutcomes EXCEPT !.feedback = fb]))

\* Lines 301-305 (no stored feedback at the script checkpoint) and lines
\* 266-267 failing at the script checkpoint are not actions: a session
\* reaches SCRIPT_CREATION only through ThemeApproveTurn, whose stored
\* feedback parses to a dict, and afterwards the feedback entry is only
\* ever overwritten with the non-empty dict UserFeedbackAgentOutput.

\* lines 260-290
ScriptApproveTurn ==
    /\ ScriptAwaiting(state) /\ StoredApproval(state)
    /\ \E r \in Replies : \E fb \in Outcomes(FeedbackOutputs(r)),
          pr \in Outcomes(PromptOutputs), sn \in [1..MaxScenes -> SceneOutcomes] :
          LET o == [NoOutcomes EXCEPT !.feedback = fb, !.prompts = pr, !.scenes = sn]
          IN  Turn(r, ScriptApproved(RecordVerdict(Ctx, o, "user_responded_to_script"), o))

\* lines 260-273, 292-300
ScriptRejectTurn ==
    /\ ScriptAwaiting(state) /\ Decides(state) /\ ~StoredApproval(state)
    /\ \E r \in Replies : \E fb \in Outcomes(FeedbackOutputs(r)),
          sc \in Outcomes(ScriptOutputs) :
          LET o == [NoOutcomes EXCEPT !.feedback = fb, !.script = sc]
          IN  Turn(r, ScriptRejected(RecordVerdict(Ctx, o, "user_responded_to_script"), o))

\* variant: a turn no branch applies to sends the workflow back to the start
FallThroughTurn_restart ==
    /\ ~(AtTheme(state) /\ ~Truthy(state.theme_intent))
    /\ ~ThemeAwaiting(state)
    /\ ~ScriptAwaiting(state)
    /\ \E r \in Replies :
          Turn(r, Emit(SetKey(SetStage(Ctx, THEME_DEFINITION),
                              "user_responded_to_theme", FALSE),
                       "went_wrong", ""))

\* variant: a turn no branch applies to ends without a message
FallThroughTurn_silent ==
    /\ ~(AtTheme(state) /\ ~Truthy(state.theme_intent))
    /\ ~ThemeAwaiting(state)
    /\ ~ScriptAwaiting(state)
    /\ \E r \in Replies : Turn(r, Ctx)

\* line 308: no branch applies (stage RESEARCH or ASSET_GENERATION, or a
\* checkpoint whose responded flag is already set)
FallThroughTurn ==
    /\ ~(AtTheme(state) /\ ~Truthy(state.theme_intent))
    /\ ~ThemeAwaiting(state)
    /\ ~ScriptAwaiting(state)
    /\ \E r \in Replies : Turn(r, Emit(Ctx, "went_wrong", ""))

Next ==
    \/ DefineThemeTurn
    \/ ThemeNoFeedbackTurn
    \/ ThemeApproveTurn
    \/ ThemeApproveDiskFaultTurn
    \/ ThemeRejectTurn
    \/ ThemeUnparsedTurn
    \/ ScriptApproveTurn
    \/ ScriptRejectTurn
    \/ FallThroughTurn

Spec == Init /\ [][Next]_vars

(***************************************************************************)
(* Vocabulary of the properties                                            *)
(***************************************************************************)
HasEvent(kind) == \E i \in 1..Len(events) : events[i].kind = kind

CountEvents(kinds) == Cardinality({ i \in 1..Len(events) : events[i].kind \in kinds })

Called(agent) == \E i \in 1..Len(calls) : calls[i] = agent.name

CountCalls(agent) == Cardinality({ i \in 1..Len(calls) : calls[i] = agent.name })

\* a turn has been run
TurnDone == reply # NoReply

\* the turn took the rejection branch of the theme / script checkpoint
ThemeRejection == HasEvent("revise_theme")
ScriptRejection == HasEvent("revise_script")

\* the turn took the approval branch of the theme / script checkpoint
ThemeApproval == HasEvent("theme_approved")
ScriptApproval == HasEvent("script_approved")

(***************************************************************************)
(* C1: across the turns of a conversation, and whatever the steps do,      *)
(* workflow_stage never moves to an earlier stage of THEME_DEFINITION <    *)
(* RESEARCH < SCRIPT_CREATION < ASSET_GENERATION, and a turn that rejects  *)
(* the theme or the script leaves workflow_stage exactly as it was at the  *)
(* start of that turn.                                                     *)
(***************************************************************************)
C1_StageMonotone ==
    /\ StageOf(state) >= StageOf(start)
    /\ (ThemeRejection \/ ScriptRejection) => state.workflow_stage = start.workflow_stage

\* a script was rejected and regenerated in SCRIPT_CREATION
C1_Witness ==
    /\ ScriptRejection
    /\ start.workflow_stage = SCRIPT_CREATION
    /\ Truthy(state.script)

\* the production steps the controller runs through _run_sub_agent
Production == {theme_definer, researcher, script_writer, prompt_generator}

\* names of all production steps, the image generator included
ProductionNames == { a.name : a \in Production } \cup {image_generator.name}

Position(agent) == CHOOSE i \in 1..Len(calls) : calls[i] = agent.name

\* the step was run in the latest turn and returned (it did not raise)
Finished(agent) == Called(agent) /\ ~(crashed /\ calls[Len(calls)] = agent.name)

\* the step returned and its output key is absent or empty
MissingOutput(agent) == Finished(agent) /\ ~Truthy(state[agent.output_key])

\* the final text the step produced in the latest turn, None if it produced none
Produced(agent) ==
    LET idx == { i \in 1..Len(events) :
                    events[i].author = agent.name /\ events[i].kind = "response" }
    IN  IF idx = {} THEN NoneV ELSE events[CHOOSE i \in idx : TRUE].about

\* str.lower().strip() of a reply text
Canon(text) == Strip(Lower(text))

\* the turn reached an approve/reject decision
DecisionTaken == ThemeApproval \/ ThemeRejection \/ ScriptApproval \/ ScriptRejection

\* the reply text the decision of the latest turn was taken on
DecidedText == Get(_parse_json_response(decided[1]).d, "user_input", <<>>)

ErrorKinds == {"no_output", "sorry", "went_wrong", "no_theme_error"}

(***************************************************************************)
(* C2: a turn that starts in THEME_DEFINITION with a proposed theme and    *)
(* whose human reply is "yes" ends with the theme marked approved,         *)
(* workflow_stage having passed through RESEARCH to SCRIPT_CREATION, and   *)
(* assets_path set.                                                        *)
(***************************************************************************)
C2_YesApprovesTheme ==
    ( /\ TurnDone /\ ~crashed
      /\ AtTheme(start) /\ Truthy(start.theme_intent)
      /\ reply = T_yes )
    => /\ state.user_responded_to_theme
       /\ writes = <<RESEARCH, SCRIPT_CREATION>>
       /\ state.workflow_stage = SCRIPT_CREATION
       /\ state.assets_path # NoneV

C4_WhitelistOnly ==
    /\ writes # <<>> => (decided # <<>> /\ Canon(DecidedText) \in ApprovalWords)
    /\ (DecisionTaken /\ Canon(DecidedText) \notin ApprovalWords)
          => /\ ThemeRejection \/ ScriptRejection
             /\ ~ThemeApproval /\ ~ScriptApproval
             /\ state.workflow_stage = start.workflow_stage

\* the theme was approved on the text " YES\n"
C4_Witness ==
    /\ ThemeApproval
    /\ DecidedText = T_YES_padded
    /\ state.workflow_stage = SCRIPT_CREATION

(***************************************************************************)
(* C5: a turn that starts in THEME_DEFINITION with an unapproved theme and *)
(* whose human reply is outside the approval vocabulary ends with the      *)
(* theme still unapproved, workflow_stage still THEME_DEFINITION, and the  *)
(* previous theme removed and replaced by the output of exactly one fresh  *)
(* run of the theme step.                                                  *)
(***************************************************************************)
C5_RejectionRegeneratesTheme ==
    ( /\ TurnDone /\ ~crashed
      /\ AtTheme(start) /\ Truthy(start.theme_intent)
      /\ ~start.user_responded_to_theme
      /\ Canon(reply) \notin ApprovalWords )
    => /\ ~state.user_responded_to_theme
       /\ StageOf(state) = THEME_DEFINITION
       /\ CountCalls(theme_definer) = 1
       /\ state.theme_intent = Produced(theme_definer)

(***************************************************************************)
(* C6: a turn that rejects the script removes the old script, stays in     *)
(* SCRIPT_CREATION and runs exactly the script step again: the theme,      *)
(* research, prompt and image steps are not run, and theme_intent,         *)
(* research_report and assets_path are unchanged.                          *)
(***************************************************************************)
C6_ScriptRejectionFrame ==
    ScriptRejection =>
        /\ state.workflow_stage = SCRIPT_CREATION
        /\ CountCalls(script_writer) = 1
        /\ ~Called(theme_definer) /\ ~Called(researcher)
        /\ ~Called(prompt_generator) /\ ~Called(image_generator)
        /\ state.script = Produced(script_writer)
        /\ state.theme_intent = start.theme_intent
        /\ state.research_report = start.research_report
        /\ state.assets_path = start.assets_path

\* a proposed script was rejected and replaced by a different one
C6_Witness ==
    /\ ScriptRejection /\ ~crashed
    /\ Truthy(start.script) /\ Truthy(state.script)
    /\ state.script # start.script

C9_ThemeMissingOutputAbort ==
    MissingOutput(theme_definer) =>
        /\ CountEvents(ErrorKinds) = 1
        /\ \E i \in 1..Len(events) :
              events[i].kind = "no_output" /\ events[i].about = theme_definer.name
        /\ ~HasEvent("propose_theme")
        /\ StageOf(state) = THEME_DEFINITION
        /\ ~state.user_responded_to_theme

\* after a rejection the theme step wrote an empty text
C9_Witness ==
    /\ ThemeRejection
    /\ MissingOutput(theme_definer)
    /\ Produced(theme_definer) = Str(<<>>)

(***************************************************************************)
(* C10: in every reachable state, if the script is approved                *)
(* (user_responded_to_script, or workflow_stage ASSET_GENERATION) then the *)
(* theme is approved and a workspace exists: assets_path is set and its    *)
(* directory has been created.                                             *)
(***************************************************************************)
C10_ScriptApprovedImpliesThemeAndWorkspace ==
    (state.user_responded_to_script \/ state.workflow_stage = ASSET_GENERATION)
    => /\ state.user_responded_to_theme
       /\ state.assets_path.kind = "path"
       /\ state.assets_path.s \in dirs

\* the script has been approved and images were generated
C10_Witness ==
    /\ state.workflow_stage = ASSET_GENERATION
    /\ state.user_responded_to_script
    /\ Truthy(state.images_path)

(***************************************************************************)
(* C11: across the turns of one conversation _setup_assets_folder runs at  *)
(* most once, a turn in which it runs is a turn that approves the theme,   *)
(* and once assets_path is set no later turn assigns it another value.     *)
(***************************************************************************)
C11_ProvisionedOnce ==
    /\ [](provisions <= 1)
    /\ [][ /\ provisions' # provisions => ThemeApproval'
           /\ state.assets_path # NoneV => state'.assets_path = state.assets_path ]_vars

\* a later turn of a conversation whose workspace was provisioned
C11_Witness ==
    /\ provisions = 1
    /\ TurnDone /\ ~ThemeApproval
    /\ start.assets_path.kind = "path"
    /\ state.assets_path = start.assets_path

(***************************************************************************)
(* C12: ASSET_GENERATION is terminal: a turn that starts with              *)
(* workflow_stage ASSET_GENERATION runs no step, whatever the human        *)
(* message, and leaves workflow_stage, both approval flags, theme_intent,  *)
(* script and assets_path as they were.                                    *)
(***************************************************************************)
C12_AssetGenerationTerminal ==
    (TurnDone /\ start.workflow_stage = ASSET_GENERATION) =>
        /\ calls = <<>>
        /\ state.workflow_stage = ASSET_GENERATION
        /\ state.user_responded_to_theme = start.user_responded_to_theme
        /\ state.user_responded_to_script = start.user_responded_to_script
        /\ state.theme_intent = start.theme_intent
        /\ state.script = start.script
        /\ state.assets_path = start.assets_path

\* a human message arrived after the assets were generated
C12_Witness ==
    /\ start.workflow_stage = ASSET_GENERATION
    /\ reply = T_shorter
    /\ HasEvent("went_wrong")

(***************************************************************************)
(* Conversations in which nothing fails: the human answers every turn with *)
(* an approval word, no step raises, every production step that runs      *)
(* writes a non-empty final text and every image request returns an image. *)
(* The human keeps answering (weak fairness of the turns).                 *)
(***************************************************************************)
ProducedOutput(name) ==
    \E i \in 1..Len(events) :
        /\ events[i].kind = "response"
        /\ events[i].author = name
        /\ Truthy(events[i].about)

HappyTurn ==
    /\ Canon(reply) \in ApprovalWords
    /\ ~crashed
    /\ \A a \in Production : Called(a) => ProducedOutput(a.name)
    /\ ~HasEvent("scene_failed") /\ ~HasEvent("scene_error")
    /\ ~HasEvent("image_run_error") /\ ~HasEvent("no_prompts")

HappyNext == Next /\ HappyTurn'

HappySpec == Init /\ [][HappyNext]_vars /\ WF_vars(HappyNext)

(***************************************************************************)
(* C13: starting from an empty session state, in a conversation where      *)
(* every production step produces non-empty output and the human replies   *)
(* with an approval word at each checkpoint, the controller eventually     *)
(* reaches ASSET_GENERATION and emits the completion message.              *)
(***************************************************************************)
C13_HappyPathCompletes ==
    (state.feedback = NoneV) =>
        <>(state.workflow_stage = ASSET_GENERATION /\ HasEvent("complete"))

C16_UnintelligibleReemits ==
    /\ (TurnDone /\ ~crashed /\ ThemeAwaiting(start) /\ ~Decides(start)) =>
           /\ ~Called(theme_definer)
           /\ state.theme_intent = start.theme_intent
           /\ HasEvent("propose_theme")
    /\ (TurnDone /\ ~crashed /\ ScriptAwaiting(start) /\ Truthy(start.script)
           /\ ~Decides(start)) =>
           /\ ~Called(script_writer)
           /\ state.script = start.script
           /\ HasEvent("propose_script")

JsonTexts ==
    { JObj([user_input |-> T_okay]),
      JObj([theme |-> L_other, user_intent |-> T_intent]),
      JObj(EmptyDict), JScalar, JNull }

Pads == { <<>>, <<Ws>>, <<Nl>>, <<Nl, Ws>> }

Fenced(j, pre, post) == pre \o <<FenceOpen, Nl, Doc(j), Nl, FenceClose>> \o post

IsFenced(v) ==
    /\ v.kind = "str"
    /\ Len(v.s) >= 5
    /\ \E pre \in Pads, post \in Pads :
          \E i \in 1..Len(v.s) :
              v.s[i].t = "doc" /\ v.s = Fenced(v.s[i].j, pre, post)

Unfenced(v) == Str(SelectSeq(v.s, LAMBDA tok : tok.t = "doc"))

ReadAsUnfenced(v) ==
    IsFenced(v) => _parse_json_response(v) = _parse_json_response(Unfenced(v))

C18_FencedEqualsUnfenced ==
    /\ \A j \in JsonTexts : \A pre \in Pads, post \in Pads :
          /\ _parse_json_response(Str(Fenced(j, pre, post)))
                 = _parse_json_response(Str(<<Doc(j)>>))
          /\ _parse_json_response(Str(<<Doc(j)>>)) = j
    /\ \A i \in 1..Len(decided) : ReadAsUnfenced(decided[i])
    /\ ReadAsUnfenced(state.theme_intent)
    /\ (ThemeApproval /\ ~crashed /\ IsFenced(start.theme_intent)) =>
          state.intent = Text(_parse_json_response(
                                 Unfenced(start.theme_intent)).d.user_intent)

\* a fenced theme was approved on a fenced feedback value
C18_Witness ==
    /\ ThemeApproval /\ ~crashed
    /\ IsFenced(decided[1])
    /\ IsFenced(start.theme_intent)
    /\ DecidedText = T_okay
    /\ state.assets_path = PathV(<< <<"projects">>, L_other >>)

(***************************************************************************)
(* C19: the checkpoint gate approves when the interpreted reply text,      *)
(* lower-cased and trimmed, is in the approval vocabulary, or when the     *)
(* structured value decided on carries approved = true; a structured reply *)
(* with approved = true whose text is outside the vocabulary is approved.  *)
(***************************************************************************)
Flagged(v) ==
    LET j == _parse_json_response(v)
    IN  j.jk = "obj" /\ Get(j.d, "approved", <<>>) = T_true

EventIndex(kind) == CHOOSE i \in 1..Len(events) : events[i].kind = kind

EventsOf(name) == { i \in 1..Len(events) : events[i].author = name }

ScriptApprovalCalls ==
    <<user_feedback.name, prompt_generator.name, image_generator.name>>

C20_ScriptApprovalOrder ==
    ScriptApproval =>
        /\ Len(calls) <= 3 /\ calls = SubSeq(ScriptApprovalCalls, 1, Len(calls))
        /\ ~crashed =>
              /\ calls = ScriptApprovalCalls
              /\ CountEvents({"creating_prompts"}) = 1
              /\ CountEvents({"generating_images"}) = 1
              /\ CountEvents({"complete"}) = 1
              /\ \A i \in EventsOf(prompt_generator.name) :
                    EventIndex("creating_prompts") < i
                    /\ i < EventIndex("generating_images")
              /\ EventsOf(image_generator.name) # {}
              /\ \A i \in EventsOf(image_generator.name) :
                    EventIndex("generating_images") < i
                    /\ i < EventIndex("complete")
              /\ CountEvents({"generating_scene"})
                    = Len(PromptsOf(state.image_prompts))
              /\ EventIndex("complete") = Len(events)
              /\ start.assets_path.kind = "path"
              /\ events[Len(events)].about = start.assets_path

\* the script was approved and an image was requested for each of two prompts
C20_Witness ==
    /\ ScriptApproval /\ ~crashed
    /\ Len(PromptsOf(state.image_prompts)) = 2
    /\ CountEvents({"generating_scene"}) = 2
    /\ events[Len(events)].kind = "complete"

(***************************************************************************)
(* Two conversations served by the one runner and agent instance, on the   *)
(* one filesystem.  The runner takes the session of the other conversation *)
(* for the next message; the turns of the two interleave in any order.     *)
(* Nothing fails in these conversations.                                   *)
(***************************************************************************)
TwoSeeds == { NoneV, Dict([user_input |-> T_yes]) }

TwoInit == InitWith(NewSessions(TwoSeeds), NewSessions(TwoSeeds))

SwitchConversation ==
    /\ state' = parked.state
    /\ provisions' = parked.provisions
    /\ parked' = [state |-> state, provisions |-> provisions]
    /\ sid' = 3 - sid
    /\ UNCHANGED <<dirs, files, start, reply, events, calls, writes, decided,
                   interpreted, crashed, heard, writers>>

TwoNext == HappyNext \/ SwitchConversation

TwoSpec == TwoInit /\ [][TwoNext]_vars

(***************************************************************************)
(* C14: two conversations whose turns interleave share no workspace: a     *)
(* directory one conversation writes its files to (its assets_path, or the *)
(* default archive location before a workspace is set) is never a          *)
(* directory the other writes to, also when both approve themes with the   *)
(* same label, so no file of one is overwritten by the other.              *)
(***************************************************************************)
C14_NoSharedWorkspace ==
    \A w1 \in writers, w2 \in writers :
        w1[2][1] = w2[2][1] => w1[1] = w2[1]

(***************************************************************************)
(* C21: in one image-generation run over N prompts, a scene whose image    *)
(* request raises or returns no images is reported with an error message   *)
(* for that scene and skipped: an image is still requested for every later *)
(* scene, in prompt order, and the run ends with its closing message.      *)
(***************************************************************************)
\* the events of the image step in the latest turn
ImageEvents == SelectSeq(events, LAMBDA e : e.author = image_generator.name)

\* the message that ends the attempt on a scene with the given outcome
SceneReport(outcome) ==
    CASE outcome = "ok" -> "image_saved"
      [] outcome = "empty" -> "scene_failed"
      [] outcome = "raise" -> "scene_error"

\* ie is the event sequence of a run over n prompts with outcomes sn
SceneBySceneRun(ie, n, sn) ==
    /\ Len(ie) = 2 * n + 1
    /\ \A k \in 1..n :
          /\ ie[2 * k - 1].kind = "generating_scene" /\ ie[2 * k - 1].about = k
          /\ ie[2 * k].kind = SceneReport(sn[k]) /\ ie[2 * k].about = k
    /\ ie[2 * n + 1].kind = "all_images_generated"

\* the scene outcomes the messages of the latest turn report
ReportedOutcomes ==
    [ k \in 1..MaxScenes |->
        IF \E i \in 1..Len(events) :
              events[i].kind \in {"scene_failed", "scene_error"} /\ events[i].about = k
        THEN IF \E i \in 1..Len(events) :
                   events[i].kind = "scene_failed" /\ events[i].about = k
             THEN "empty" ELSE "raise"
        ELSE "ok" ]

C21_SceneFailureSkipped ==
    /\ (ScriptApproval /\ ~crashed /\ HasEvent("generating_scene")) =>
          /\ SceneBySceneRun(ImageEvents, Len(PromptsOf(state.image_prompts)),
                             ReportedOutcomes)
          /\ \A k \in 1..Len(PromptsOf(state.image_prompts)) :
                SceneDir(state.assets_path.s, k - 1) \in dirs
    /\ (ScriptApproval /\ state.assets_path.kind = "path"
           /\ PromptsOf(state.image_prompts) # <<>>) =>
          \A sn \in [1..Len(PromptsOf(state.image_prompts)) -> SceneOutcomes] :
              LET scenes == [k \in 1..MaxScenes |-> IF k \in DOMAIN sn THEN sn[k] ELSE "ok"]
                  c == ImagenAgent_run(Ctx, [NoOutcomes EXCEPT !.scenes = scenes])
              IN  /\ ~c.crashed
                  /\ SceneBySceneRun(c.events, Len(sn), sn)

\* the request for the first of two scenes raised and the second image was saved
C21_Witness ==
    /\ ScriptApproval /\ ~crashed
    /\ Len(PromptsOf(state.image_prompts)) = 2
    /\ \E i \in 1..Len(events) : events[i].kind = "scene_error" /\ events[i].about = 1
    /\ \E i \in 1..Len(events) : events[i].kind = "image_saved" /\ events[i].about = 2
    /\ <<SceneDir(state.assets_path.s, 1), <<"image_1", "jpg">>>> \in files

(***************************************************************************)
(* C22: workspace provisioning is idempotent: provisioning twice with the  *)
(* same theme label gives the same assets_path both times, raises no error *)
(* when the directory already exists, and leaves the filesystem and the    *)
(* session state after the second call equal to what they were after the   *)
(* first.                                                                  *)
(***************************************************************************)
\* _setup_assets_folder run on session state st and the filesystem ds, fl;
\* ok: the disk accepts the creation of a new directory
Provisioned(st, ds, fl, ok) ==
    _setup_assets_folder(NewCtx(st, ds, fl), [NoOutcomes EXCEPT !.disk_ok = ok])

SameOutcome(c1, c2) ==
    /\ ~c2.crashed
    /\ c2.state.assets_path = c1.state.assets_path
    /\ c2.state = c1.state
    /\ c2.dirs = c1.dirs
    /\ c2.files = c1.files
    /\ c2.events = c1.events

C22_ProvisioningIdempotent ==
    /\ Truthy(state.theme_intent) =>
          LET c1 == Provisioned(state, dirs, files, TRUE)
              c2 == Provisioned(c1.state, c1.dirs, c1.files, FALSE)
          IN  ~c1.crashed =>
                 /\ c1.state.assets_path.kind = "path"
                 /\ c1.state.assets_path.s \in c1.dirs
                 /\ SameOutcome(c1, c2)
    /\ (HasEvent("folder_created") /\ ~crashed) =>
          LET c2 == Provisioned(state, dirs, files, FALSE)
          IN  /\ ~c2.crashed
              /\ c2.state = state /\ c2.dirs = dirs /\ c2.files = files
              /\ c2.events[1] = events[EventIndex("folder_created")]

\* the workspace of the theme "A b" was provisioned by the approving turn
C22_Witness ==
    /\ ThemeApproval /\ ~crashed
    /\ HasEvent("folder_created")
    /\ state.assets_path = PathV(<< <<"projects">>, <<"a", "_", "b">> >>)
    /\ state.assets_path.s \in dirs
    /\ Provisioned(state, dirs, files, FALSE).state.assets_path = state.assets_path

ProvisioningFailed ==
    /\ ThemeApproval /\ crashed
    /\ ~HasEvent("folder_created") /\ ~HasEvent("no_theme_error")
    /\ ~Called(researcher)

C25_ApprovedThemeImmutable ==
    (TurnDone /\ (ThemeApproval \/ start.user_responded_to_theme)) =>
        /\ state.theme_intent = start.theme_intent
        /\ Truthy(state.theme_intent)
        /\ ~Called(theme_definer)
        /\ state.user_responded_to_theme

\* a script was rejected and redrafted after the theme was approved
C25_Witness ==
    /\ start.user_responded_to_theme
    /\ ScriptRejection /\ ~crashed
    /\ Called(script_writer)
    /\ Truthy(start.theme_intent)
    /\ state.theme_intent = start.theme_intent

(***************************************************************************)
(* C26: for every shared-state mapping, save_agent_output writes one file  *)
(* key.md for each string-valued entry and one file key.json for each      *)
(* structured (dict) entry, under assets_path when it is set and under     *)
(* projects/default otherwise; for entries of any other type (the stage,   *)
(* the flags, a list) it writes nothing and does not fail.                 *)
(***************************************************************************)
\* where the archive of session state st goes
ArchiveDir(st) == IF st.assets_path = NoneV THEN DefaultArchive ELSE st.assets_path.s

\* the entries of st that are present, by type
StringKeys(st) ==
    { k \in {"theme_intent", "feedback", "user_feedback", "research_report", "script",
             "image_prompts", "assets_path", "intent"} :
         st[k].kind \in {"str", "text", "path"} }
DictKeys(st) == { k \in {"theme_intent", "feedback"} : st[k].kind = "dict" }

\* the files the claim expects for st
ExpectedArchive(st) ==
    { <<ArchiveDir(st), <<k, "md">>>> : k \in StringKeys(st) }
    \cup { <<ArchiveDir(st), <<k, "json">>>> : k \in DictKeys(st) }

NeverArchived ==
    {"workflow_stage", "user_responded_to_theme", "user_responded_to_script", "images_path"}

\* the archiving steps
Archiving == { a \in Production \cup {user_feedback} : a.archives }

C26_ArchiverWritesByType ==
    /\ LET c == save_agent_output(NewCtx(state, dirs, {}), TRUE)
       IN  /\ ~c.crashed
           /\ c.files = ExpectedArchive(state)
           /\ c.written = c.files
           /\ ArchiveDir(state) \in c.dirs
           /\ c.state = state
           /\ c.events = <<>>
    /\ \A w \in writers :
          /\ w[2][2][1] \notin NeverArchived
          /\ w[2][2][2] = "json" => w[2][2][1] = "feedback"
    /\ ( /\ ~crashed /\ calls # <<>>
         /\ \E a \in Archiving : calls[Len(calls)] = a.name )
       => ExpectedArchive(state) \subseteq files

\* a script was drafted into a provisioned workspace while the session held
\* strings, a dict, the stage and the flags
C26_Witness ==
    /\ ~crashed /\ calls # <<>> /\ calls[Len(calls)] = script_writer.name
    /\ state.assets_path.kind = "path"
    /\ state.feedback.kind = "dict"
    /\ <<state.assets_path.s, <<"script", "md">>>> \in files
    /\ <<state.assets_path.s, <<"feedback", "json">>>> \in files
    /\ <<state.assets_path.s, <<"assets_path", "md">>>> \in files
    /\ state.workflow_stage = SCRIPT_CREATION /\ state.user_responded_to_theme

C28_NoSilentTurn ==
    (TurnDone /\ ~crashed) =>
        /\ events # <<>>
        /\ \E i \in 1..Len(events) : events[i].author = SelfName

\* a turn in which no step ran and exactly one message was emitted
C28_Witness ==
    /\ TurnDone /\ ~crashed
    /\ calls = <<>>
    /\ Len(events) = 1
    /\ events[1].kind = "went_wrong"

(***************************************************************************)
(* C29: at every turn boundary, stage THEME_DEFINITION implies             *)
(* user_responded_to_theme is false and stage SCRIPT_CREATION implies      *)
(* user_responded_to_script is false; consequently no turn starts in a     *)
(* checkpoint stage with its responded flag already true.                  *)
(***************************************************************************)
CheckpointOpen(st) ==
    /\ StageOf(st) = THEME_DEFINITION => ~st.user_responded_to_theme
    /\ StageOf(st) = SCRIPT_CREATION => ~st.user_responded_to_script

C29_CheckpointFlagsClear ==
    /\ CheckpointOpen(state)
    /\ CheckpointOpen(start)
    /\ (AtTheme(start) /\ Truthy(start.theme_intent)) => ThemeAwaiting(start)
    /\ AtScript(start) => ScriptAwaiting(start)

\* a turn set the responded flag, rejected the theme and cleared the flag
C29_Witness ==
    /\ ThemeRejection /\ ~crashed
    /\ decided # <<>>
    /\ StageOf(state) = THEME_DEFINITION
    /\ Truthy(state.theme_intent)
    /\ ~state.user_responded_to_theme

SceneSaved(k) ==
    /\ \E i \in 1..Len(events) : events[i].kind = "image_saved" /\ events[i].about = k
    /\ <<SceneDir(state.assets_path.s, k - 1), <<"image_1", "jpg">>>> \in files

SceneDirs(assets_path, n) == [k \in 1..n |-> SceneDir(assets_path, k - 1)]

C32_ImagesPathListsScenes ==
    /\ (HasEvent("all_images_generated") /\ ~crashed) =>
          /\ Len(PromptsOf(state.image_prompts)) >= 1
          /\ state.images_path
                = List(SceneDirs(state.assets_path.s, Len(PromptsOf(state.image_prompts))))
    /\ (HasEvent("no_prompts") /\ ~crashed) =>
          /\ PromptsOf(state.image_prompts) = <<>>
          /\ Len(ImageEvents) = 1
          /\ state.images_path = start.images_path
    /\ (ScriptApproval /\ state.assets_path.kind = "path"
           /\ PromptsOf(state.image_prompts) # <<>>) =>
          \A sn \in [1..Len(PromptsOf(state.image_prompts)) -> SceneOutcomes] :
              LET scenes == [k \in 1..MaxScenes |-> IF k \in DOMAIN sn THEN sn[k] ELSE "ok"]
                  c == ImagenAgent_run(Ctx, [NoOutcomes EXCEPT !.scenes = scenes])
              IN  c.state.images_path = List(SceneDirs(state.assets_path.s, Len(sn)))

\* a run over two prompts whose first scene failed recorded both directories
C32_Witness ==
    /\ ScriptApproval /\ ~crashed
    /\ HasEvent("all_images_generated")
    /\ \E i \in 1..Len(events) : events[i].kind = "scene_failed" /\ events[i].about = 1
    /\ Len(state.images_path.s) = 2
    /\ state.images_path.s[2] = SceneDir(state.assets_path.s, 1)

====
